---- MODULE Spec2Model ----
(***************************************************************************)
(* State-machine model of streamlit_app.py, the Streamlit dashboard of the *)
(* text-preprocessing report.  One script run (a page view) is one action: *)
(* the script executes top to bottom, calls load_data() (memoised by       *)
(* st.cache_data), and renders the page selected in the sidebar.           *)
(*                                                                         *)
(* Text is a tuple of one-character strings, so that whitespace splitting  *)
(* and the text-mode newline translation are computed, not assumed.        *)
(* The data file is modelled by its parsed structure (columns, records,    *)
(* line terminator); FileBytes serialises it for the download path.        *)
(***************************************************************************)
EXTENDS Integers, Sequences, FiniteSets, TLC

\* file           data/anxiety_preprocessed.csv on disk
\* cache          st.cache_data's stored result of load_data (None before a load)
\* page           the sidebar selection of the last run
\* loaded         the frame load_data returned to the last run
\* df             that run's frame when the run ended
\* out            what the last run rendered
\* csvReads       pd.read_csv executions since the cache was last cleared
\* statsComputed  completed token-statistics computations since then
\* first          history: the values first shown for the loaded dataset
VARIABLES file, cache, page, loaded, df, out, csvReads, statsComputed, first

vars == <<file, cache, page, loaded, df, out, csvReads, statsComputed, first>>

(***************************************************************************)
(* Bounds of the model.                                                    *)
(***************************************************************************)
MaxRows == 2
MaxCount == 2

(***************************************************************************)
(* Values.                                                                 *)
(***************************************************************************)
None == <<>>
Some(v) == <<v>>

\* pandas' missing value: as a text cell, as a per-row count, as a mean (0/0).
NaNText == <<"NaN">>
NaN == -1
NaNMean == [num |-> 0, den |-> 0]

NoError == ""

Missing == [exists |-> FALSE]
NoFrame == [columns |-> {}, rows |-> <<>>, valid |-> FALSE]

RECURSIVE SeqsUpTo(_, _)
SeqsUpTo(S, n) ==
    IF n = 0 THEN {<<>>}
    ELSE LET shorter == SeqsUpTo(S, n - 1)
         IN  shorter \cup {Append(s, x) : s \in {t \in shorter : Len(t) = n - 1}, x \in S}

Reverse(s) == [i \in 1..Len(s) |-> s[Len(s) + 1 - i]]

(***************************************************************************)
(* The input file data/anxiety_preprocessed.csv.                           *)
(***************************************************************************)
ORIGINAL == "original_selftext"
PROCESSED == "processed_text"
STEMMED == "tokens_stemmed"

ColumnOrder == <<ORIGINAL, PROCESSED, STEMMED>>
RequiredColumns == {ORIGINAL, STEMMED}

\* Raw cell texts of the original-text column: "" and " i'm  3!! ".
OrigTexts ==
    { <<>>,
      <<" ", "i", "'", "m", " ", " ", "3", "!", "!", " ">> }

\* Raw cell texts of the stemmed-token column: "", "a", "b a".
StemTexts == { <<>>, <<"a">>, <<"b", " ", "a">> }

ProcessedCell == <<"p">>

ColumnSets == { {ORIGINAL, PROCESSED, STEMMED}, {ORIGINAL, PROCESSED}, {PROCESSED, STEMMED} }

CellTexts(c) ==
    IF c = ORIGINAL THEN OrigTexts
    ELSE IF c = STEMMED THEN StemTexts
    ELSE {ProcessedCell}

RawRows(cols) == [cols -> OrigTexts \cup StemTexts \cup {ProcessedCell}]

RowsOf(cols) == {r \in RawRows(cols) : \A c \in cols : r[c] \in CellTexts(c)}

LineTerminators == { <<"\n">>, <<"\r", "\n">> }

FilesWith(cols) ==
    { [exists |-> TRUE, columns |-> cols, lineterminator |-> lt, rows |-> rs] :
        lt \in LineTerminators, rs \in SeqsUpTo(RowsOf(cols), MaxRows) }

Files == {Missing} \cup UNION {FilesWith(cols) : cols \in ColumnSets}

(***************************************************************************)
(* pd.read_csv: an empty cell is read as NaN; a missing file raises.       *)
(***************************************************************************)
ReadCell(text) == IF text = <<>> THEN NaNText ELSE text

ReadCsv(f) ==
    [ columns |-> f.columns,
      rows |-> [i \in 1..Len(f.rows) |-> [c \in f.columns |-> ReadCell(f.rows[i][c])]],
      valid |-> TRUE ]

\* st.cache_data hands every caller its own copy of the memoised value.
CachedCopy(c) == c[1]

(***************************************************************************)
(* Series.str.split().str.len(): whitespace tokenisation of one cell.      *)
(***************************************************************************)
IsSpace(ch) == ch \in {" ", "\t", "\n", "\r"}

\* str.split() with no separator: runs of whitespace separate the tokens and
\* leading or trailing whitespace yields no empty token.
RECURSIVE SplitFrom(_, _, _)
SplitFrom(text, i, cur) ==
    IF i > Len(text)
    THEN IF cur = <<>> THEN <<>> ELSE <<cur>>
    ELSE IF IsSpace(text[i])
         THEN IF cur = <<>>
              THEN SplitFrom(text, i + 1, <<>>)
              ELSE <<cur>> \o SplitFrom(text, i + 1, <<>>)
         ELSE SplitFrom(text, i + 1, Append(cur, text[i]))

Split(text) == SplitFrom(text, 1, <<>>)

\* .str.split().str.len() of one cell: NaN stays NaN.
StrSplitLen(cell) == IF cell = NaNText THEN NaN ELSE Len(Split(cell))

\* .fillna(''): a missing cell becomes the empty string.
Fillna(cell) == IF cell = NaNText THEN <<>> ELSE cell

\* read_csv infers float64 for a column that holds only NaN, and the .str
\* accessor refuses such a column; a column of no rows at all is object.
IsFloatColumn(d, c) ==
    /\ Len(d.rows) > 0
    /\ \A i \in 1..Len(d.rows) : d.rows[i][c] = NaNText

RECURSIVE SumValid(_, _)
SumValid(counts, i) ==
    IF i = 0 THEN 0
    ELSE SumValid(counts, i - 1) + (IF counts[i] = NaN THEN 0 ELSE counts[i])

\* Series.mean(): NaN entries are skipped, the mean of nothing is NaN.
Mean(counts) ==
    LET valid == {i \in 1..Len(counts) : counts[i] # NaN}
    IN  IF valid = {} THEN NaNMean
        ELSE [num |-> SumValid(counts, Len(counts)), den |-> Cardinality(valid)]

\* df[name] = values: the frame gains (or overwrites) a column.
WithColumn(d, name, values) ==
    [ d EXCEPT !.columns = @ \cup {name},
               !.rows = [i \in 1..Len(d.rows) |->
                            [c \in d.columns \cup {name} |->
                                IF c = name THEN values[i] ELSE d.rows[i][c]]] ]

OriginalTokens(d) == [i \in 1..Len(d.rows) |-> StrSplitLen(Fillna(d.rows[i][ORIGINAL]))]

ProcessedTokens(d) == [i \in 1..Len(d.rows) |-> StrSplitLen(d.rows[i][STEMMED])]

(***************************************************************************)
(* Rendering.                                                              *)
(***************************************************************************)
DigitChars == <<"0", "1", "2", "3", "4", "5", "6", "7", "8", "9">>

RECURSIVE FormatDigits(_)
FormatDigits(n) ==
    IF n < 10 THEN <<DigitChars[n + 1]>>
    ELSE Append(FormatDigits(n \div 10), DigitChars[(n % 10) + 1])

RECURSIVE GroupThousands(_)
GroupThousands(ds) ==
    IF Len(ds) <= 3 THEN ds
    ELSE GroupThousands(SubSeq(ds, 1, Len(ds) - 3)) \o <<",">> \o SubSeq(ds, Len(ds) - 2, Len(ds))

\* f"{n:,}"
FormatThousands(n) == GroupThousands(FormatDigits(n))

\* Variants of the Total Posts metric: the header line counted as a record, and
\* the frame left by the previous run used in place of this run's.
TotalPostsWithHeader(d) == FormatThousands(Len(d.rows) + 1)

TotalPostsOfPreviousRun(d) == FormatThousands(Len(df.rows))

\* st.metric("Total Posts", f"{len(df):,}")
TotalPostsMetric(d) == FormatThousands(Len(d.rows))

\* The percentages of posts per preprocessing type, in tenths of a percent.
CONTRACTIONS == "Contractions"
NUMBERS == "Numbers"
PUNCTUATION == "Excessive Punctuation"
URLS == "URLs"

preprocessing_stats ==
    (CONTRACTIONS :> 472) @@ (NUMBERS :> 467) @@ (PUNCTUATION :> 188) @@ (URLS :> 18)

\* The percentages each page states, as text or as a chart.
KeyFindings == preprocessing_stats
StepImpacts == preprocessing_stats
RequirementFrequencies == [c \in {CONTRACTIONS, NUMBERS, URLS} |-> preprocessing_stats[c]]

TopN == 15

word_freq ==
    << [term |-> <<"a", "n", "x", "i", "e", "t", "y">>, count |-> 1447],
       [term |-> <<"f", "e", "e", "l">>, count |-> 1367],
       [term |-> <<"l", "i", "k", "e">>, count |-> 1182],
       [term |-> <<"n", "u", "m">>, count |-> 1009],
       [term |-> <<"g", "e", "t">>, count |-> 754],
       [term |-> <<"k", "n", "o", "w">>, count |-> 678],
       [term |-> <<"r", "e", "a", "l">>, count |-> 612],
       [term |-> <<"w", "a", "n", "t">>, count |-> 553],
       [term |-> <<"t", "i", "m", "e">>, count |-> 537],
       [term |-> <<"t", "h", "i", "n", "k">>, count |-> 500],
       [term |-> <<"w", "o", "r", "k">>, count |-> 480],
       [term |-> <<"w", "o", "u", "l", "d">>, count |-> 477],
       [term |-> <<"t", "h", "i", "n", "g">>, count |-> 460],
       [term |-> <<"d", "a", "y">>, count |-> 457],
       [term |-> <<"h", "e", "l", "p">>, count |-> 433] >>

\* px.bar(x=values[::-1], y=keys[::-1], orientation='h'): a horizontal bar chart
\* draws its first category at the bottom, so the chart reads, top to bottom,
\* in the order of the literal.
WordFreqChart ==
    [ x |-> Reverse([i \in 1..Len(word_freq) |-> word_freq[i].count]),
      y |-> Reverse([i \in 1..Len(word_freq) |-> word_freq[i].term]) ]

ChartTopDown(chart) ==
    LET n == Len(chart.y)
    IN  [i \in 1..n |-> [term |-> chart.y[n + 1 - i], count |-> chart.x[n + 1 - i]]]

(***************************************************************************)
(* The download path: open(path, 'r').read() and st.download_button.       *)
(***************************************************************************)
RECURSIVE JoinCells(_, _)
JoinCells(cells, i) ==
    IF i > Len(cells) THEN <<>>
    ELSE (IF i > 1 THEN <<",">> ELSE <<>>) \o cells[i] \o JoinCells(cells, i + 1)

PresentColumns(f) == SelectSeq(ColumnOrder, LAMBDA c : c \in f.columns)

HeaderLine(f) ==
    LET cs == PresentColumns(f)
    IN  JoinCells([i \in 1..Len(cs) |-> <<cs[i]>>], 1)

RowLine(f, r) ==
    LET cs == PresentColumns(f)
    IN  JoinCells([i \in 1..Len(cs) |-> r[cs[i]]], 1)

RECURSIVE RowLines(_, _)
RowLines(f, i) ==
    IF i > Len(f.rows) THEN <<>>
    ELSE RowLine(f, f.rows[i]) \o f.lineterminator \o RowLines(f, i + 1)

\* The content of the file on disk, one element per character (a column name
\* stands for its characters).
FileBytes(f) == HeaderLine(f) \o f.lineterminator \o RowLines(f, 1)

\* Text mode with the default newline=None: "\r\n" and a lone "\r" are read
\* as "\n".
RECURSIVE TranslateNewlines(_, _)
TranslateNewlines(b, i) ==
    IF i > Len(b) THEN <<>>
    ELSE IF b[i] = "\r"
         THEN <<"\n">> \o TranslateNewlines(b, IF i < Len(b) /\ b[i + 1] = "\n" THEN i + 2 ELSE i + 1)
         ELSE <<b[i]>> \o TranslateNewlines(b, i + 1)

TextModeRead(f) == TranslateNewlines(FileBytes(f), 1)

CsvButton(f) ==
    [ label |-> "Download anxiety_preprocessed.csv",
      file_name |-> "anxiety_preprocessed.csv",
      mime |-> "text/csv",
      data |-> TextModeRead(f) ]

ReportButton(f) ==
    [ label |-> "Download preprocessing_report.txt",
      file_name |-> "preprocessing_report.txt",
      mime |-> "text/plain",
      data |-> TextModeRead(f) ]

(***************************************************************************)
(* What one script run presents, and the record of what was first          *)
(* presented for a dataset.                                                *)
(***************************************************************************)
NoRates == [c \in {} |-> 0]

Blank ==
    [ error |-> NoError, totalPosts |-> None, avgOriginal |-> None,
      avgProcessed |-> None, rates |-> NoRates, topTerms |-> None,
      downloads |-> <<>> ]

Raised(e) == [Blank EXCEPT !.error = e]

NoFirst ==
    [ dataset |-> None, totalPosts |-> None, avgOriginal |-> None,
      avgProcessed |-> None, rates |-> NoRates, topTerms |-> None ]

Earlier(old, new) == IF old # None THEN old ELSE new

Remember(f, d, o) ==
    LET base == IF f.dataset = Some(d) THEN f ELSE NoFirst
    IN  [ dataset |-> Some(d),
          totalPosts |-> Earlier(base.totalPosts, o.totalPosts),
          avgOriginal |-> Earlier(base.avgOriginal, o.avgOriginal),
          avgProcessed |-> Earlier(base.avgProcessed, o.avgProcessed),
          rates |-> [c \in DOMAIN base.rates \cup DOMAIN o.rates |->
                        IF c \in DOMAIN base.rates THEN base.rates[c] ELSE o.rates[c]],
          topTerms |-> Earlier(base.topTerms, o.topTerms) ]

(***************************************************************************)
(* load_data(), memoised by st.cache_data: a hit returns a copy of the     *)
(* stored frame, a miss reads the file and stores the frame; an exception  *)
(* is not stored.                                                          *)
(***************************************************************************)
\* load_data without the st.cache_data decorator.
CacheNeverHit == FALSE

CacheHit == cache # None

LoadRaises == ~CacheHit /\ ~file.exists

load_data == IF CacheHit THEN CachedCopy(cache) ELSE ReadCsv(file)

CacheAfterLoad == IF CacheHit THEN cache ELSE Some(ReadCsv(file))

ReadsAfterLoad == IF CacheHit THEN csvReads ELSE csvReads + 1

\* The run stops at line 26: Streamlit shows the exception and nothing else
\* of the page.
LoadFailure(p) ==
    /\ LoadRaises
    /\ page' = p
    /\ out' = Raised("FileNotFoundError")
    /\ loaded' = NoFrame
    /\ df' = NoFrame
    /\ UNCHANGED <<file, cache, csvReads, statsComputed, first>>

\* A run whose load succeeded and whose page body leaves frame d and shows o.
Rendered(p, d, o) ==
    /\ ~LoadRaises
    /\ page' = p
    /\ cache' = CacheAfterLoad
    /\ csvReads' = ReadsAfterLoad
    /\ loaded' = load_data
    /\ df' = d
    /\ out' = o
    /\ first' = Remember(first, load_data, o)
    /\ UNCHANGED file

(***************************************************************************)
(* The pages.                                                              *)
(***************************************************************************)
OverviewBody(d) ==
    [Blank EXCEPT !.totalPosts = Some(TotalPostsMetric(d)), !.rates = KeyFindings]

RunOverview ==
    \/ LoadFailure("Overview")
    \/ /\ Rendered("Overview", load_data, OverviewBody(load_data))
       /\ UNCHANGED statsComputed

RunSteps ==
    \/ LoadFailure("Preprocessing Steps")
    \/ /\ Rendered("Preprocessing Steps", load_data, [Blank EXCEPT !.rates = StepImpacts])
       /\ UNCHANGED statsComputed

RunExamples ==
    \/ LoadFailure("Examples")
    \/ /\ Rendered("Examples", load_data, [Blank EXCEPT !.rates = RequirementFrequencies])
       /\ UNCHANGED statsComputed

\* Line 165 raises KeyError without the original-text column; line 166 raises
\* KeyError without the stemmed-token column and AttributeError when that
\* column is float64.  The exception ends the run: the later tabs are not
\* rendered, and the frame keeps the columns assigned so far.
StatisticsError(d) ==
    IF ORIGINAL \notin d.columns THEN "KeyError"
    ELSE IF STEMMED \notin d.columns THEN "KeyError"
    ELSE IF IsFloatColumn(d, STEMMED) THEN "AttributeError"
    ELSE NoError

\* Line 165 with the fillna('') written back into the text column.
WithOriginalTokensFilledInPlace(d) ==
    WithColumn(WithColumn(d, ORIGINAL, [i \in 1..Len(d.rows) |-> Fillna(d.rows[i][ORIGINAL])]),
               "original_tokens", OriginalTokens(d))

WithOriginalTokens(d) == WithColumn(d, "original_tokens", OriginalTokens(d))

WithProcessedTokens(d) == WithColumn(d, "processed_tokens", ProcessedTokens(d))

StatisticsFrame(d) ==
    IF ORIGINAL \notin d.columns THEN d
    ELSE IF StatisticsError(d) # NoError THEN WithOriginalTokens(d)
    ELSE WithProcessedTokens(WithOriginalTokens(d))

avg_original(d) == Mean(OriginalTokens(d))

avg_processed(d) == Mean(ProcessedTokens(d))

StatisticsBody(d) ==
    IF StatisticsError(d) # NoError THEN Raised(StatisticsError(d))
    ELSE [Blank EXCEPT !.avgOriginal = Some(avg_original(d)),
                       !.avgProcessed = Some(avg_processed(d)),
                       !.rates = preprocessing_stats,
                       !.topTerms = Some(ChartTopDown(WordFreqChart))]

RunStatistics ==
    \/ LoadFailure("Statistics")
    \/ /\ statsComputed < MaxCount
       /\ Rendered("Statistics", StatisticsFrame(load_data), StatisticsBody(load_data))
       /\ statsComputed' =
            IF StatisticsError(load_data) = NoError THEN statsComputed + 1 ELSE statsComputed

\* Both buttons read data/anxiety_preprocessed.csv; open() raises when the
\* file is gone, whatever the cache holds.
DownloadBody ==
    IF ~file.exists THEN Raised("FileNotFoundError")
    ELSE [Blank EXCEPT !.downloads = <<CsvButton(file), ReportButton(file)>>]

RunDownload ==
    \/ LoadFailure("Download")
    \/ /\ Rendered("Download", load_data, DownloadBody)
       /\ UNCHANGED statsComputed

(***************************************************************************)
(* The cache is cleared (st.cache_data's explicit invalidation), and the   *)
(* file on disk is removed or rewritten with one more record.              *)
(***************************************************************************)
ClearCache ==
    /\ cache # None
    /\ cache' = None
    /\ csvReads' = 0
    /\ statsComputed' = 0
    /\ UNCHANGED <<file, page, loaded, df, out, first>>

DeleteFile ==
    /\ file.exists
    /\ file' = Missing
    /\ UNCHANGED <<cache, page, loaded, df, out, csvReads, statsComputed, first>>

AppendRow ==
    /\ file.exists
    /\ Len(file.rows) < MaxRows
    /\ \E r \in RowsOf(file.columns) : file' = [file EXCEPT !.rows = Append(@, r)]
    /\ UNCHANGED <<cache, page, loaded, df, out, csvReads, statsComputed, first>>

Init ==
    /\ file \in Files
    /\ cache = None
    /\ page = "Overview"
    /\ loaded = NoFrame
    /\ df = NoFrame
    /\ out = Blank
    /\ csvReads = 0
    /\ statsComputed = 0
    /\ first = NoFirst

Next ==
    \/ RunOverview
    \/ RunSteps
    \/ RunStatistics
    \/ RunExamples
    \/ RunDownload
    \/ ClearCache
    \/ DeleteFile
    \/ AppendRow

Spec == Init /\ [][Next]_vars

(***************************************************************************)
(* Reference definitions used to state the properties.                     *)
(***************************************************************************)
DigitValue(ch) == CHOOSE v \in 0..9 : DigitChars[v + 1] = ch

RECURSIVE ParseThousands(_)
ParseThousands(txt) ==
    IF txt = <<>> THEN 0
    ELSE LET front == SubSeq(txt, 1, Len(txt) - 1)
             last == txt[Len(txt)]
         IN  IF last = "," THEN ParseThousands(front)
             ELSE 10 * ParseThousands(front) + DigitValue(last)

Shows(field) == field # None

NoDerivedMetricShown ==
    /\ ~Shows(out.totalPosts)
    /\ ~Shows(out.avgOriginal)
    /\ ~Shows(out.avgProcessed)

\* The token count of a cell: 0 for an empty or absent one.
ExpectedTokenCount(cell) == IF cell = NaNText THEN 0 ELSE Len(Split(cell))

RECURSIVE ExpectedSum(_, _, _)
ExpectedSum(d, c, i) ==
    IF i = 0 THEN 0 ELSE ExpectedSum(d, c, i - 1) + ExpectedTokenCount(d.rows[i][c])

IsNumber(m) == m.den > 0

\* m is the mean of column c's token counts over all rows: 0.0 for no rows.
IsExpectedMean(m, d, c) ==
    /\ IsNumber(m)
    /\ m.num >= 0
    /\ IF Len(d.rows) = 0 THEN m.num = 0
       ELSE m.num * Len(d.rows) = ExpectedSum(d, c, Len(d.rows)) * m.den

\* Ascending lexicographic order of terms, by character code.
Alphabet == <<" ", "!", "'", "3", "@", "a", "b", "i", "m", "p">>

CharRank(ch) == CHOOSE k \in 1..Len(Alphabet) : Alphabet[k] = ch

RECURSIVE LexLess(_, _)
LexLess(s, t) ==
    IF t = <<>> THEN FALSE
    ELSE IF s = <<>> THEN TRUE
    ELSE IF s[1] = t[1] THEN LexLess(Tail(s), Tail(t))
    ELSE CharRank(s[1]) < CharRank(t[1])

RECURSIVE StemmedTokens(_, _)
StemmedTokens(d, i) ==
    IF i = 0 THEN <<>>
    ELSE StemmedTokens(d, i - 1) \o Split(Fillna(d.rows[i][STEMMED]))

TermCount(toks, term) == Cardinality({i \in 1..Len(toks) : toks[i] = term})

RanksBefore(toks, a, b) ==
    \/ TermCount(toks, a) > TermCount(toks, b)
    \/ TermCount(toks, a) = TermCount(toks, b) /\ LexLess(a, b)

RECURSIVE RankedTerms(_, _)
RankedTerms(toks, terms) ==
    IF terms = {} THEN <<>>
    ELSE LET best == CHOOSE a \in terms : \A b \in terms \ {a} : RanksBefore(toks, a, b)
         IN  <<[term |-> best, count |-> TermCount(toks, best)]>>
                 \o RankedTerms(toks, terms \ {best})

\* The n most frequent terms of the stemmed-token column, most frequent first,
\* ties in ascending term order.
ExpectedTopTerms(d, n) ==
    LET toks == StemmedTokens(d, Len(d.rows))
        ranked == RankedTerms(toks, {toks[i] : i \in 1..Len(toks)})
    IN  SubSeq(ranked, 1, IF Len(ranked) < n THEN Len(ranked) ELSE n)

IsLetter(ch) == ch \in {"a", "b", "i", "m", "p"}
IsDigit(ch) == \E v \in 1..Len(DigitChars) : DigitChars[v] = ch
IsPunctuation(ch) == ch \in {"!", "?", "."}

\* The detection predicate of each category over an original text.
Matches(c, cell) ==
    LET t == Fillna(cell)
    IN  IF c = CONTRACTIONS
        THEN \E i \in 2..(Len(t) - 1) : t[i] = "'" /\ IsLetter(t[i - 1]) /\ IsLetter(t[i + 1])
        ELSE IF c = NUMBERS THEN \E i \in 1..Len(t) : IsDigit(t[i])
        ELSE IF c = PUNCTUATION
        THEN \E i \in 1..(Len(t) - 1) : IsPunctuation(t[i]) /\ IsPunctuation(t[i + 1])
        ELSE \E i \in 2..(Len(t) - 1) : t[i] = "@" /\ IsLetter(t[i - 1]) /\ IsLetter(t[i + 1])

\* 100 * matching / total to one decimal place, in tenths of a percent.
ExpectedRate(d, c) ==
    LET total == Len(d.rows)
        matching == Cardinality({i \in 1..total : Matches(c, d.rows[i][ORIGINAL])})
    IN  (2000 * matching + total) \div (2 * total)

(***************************************************************************)
(* Properties.                                                             *)
(***************************************************************************)

\* C1: the Total Posts metric of the Overview page, read back as a number, is
\* the number of records of the frame load_data returned to that run.
C1_TotalPostsIsRecordCount ==
    Shows(out.totalPosts) =>
        /\ loaded.valid
        /\ ParseThousands(out.totalPosts[1]) = Len(loaded.rows)

\* C1 witness: an Overview run has shown the count of a two-record dataset
\* while the file on disk no longer holds those records.
C1_Witness ==
    /\ page = "Overview"
    /\ Shows(out.totalPosts)
    /\ Len(loaded.rows) = 2
    /\ ~file.exists

\* C2: the top-terms table shown is the one computed from the loaded dataset's
\* stemmed-token column: the TopN most frequent terms with their counts, by
\* descending count, ties by ascending term.
C2_TopTermsComputedFromDataset ==
    Shows(out.topTerms) => out.topTerms[1] = ExpectedTopTerms(loaded, TopN)

\* C3: every trigger rate shown equals 100 * matching rows / total rows of the
\* loaded dataset, to one decimal place, and lies in [0.0, 100.0].
C3_TriggerRatesComputedFromDataset ==
    (loaded.valid /\ ORIGINAL \in loaded.columns /\ Len(loaded.rows) > 0) =>
        \A c \in DOMAIN out.rates :
            /\ out.rates[c] = ExpectedRate(loaded, c)
            /\ out.rates[c] \in 0..1000

\* C4: each average shown is the sum of the per-row token counts over all
\* rows divided by the row count, is non-negative, and is 0.0 for no rows.
C4_AveragesAreMeansOverAllRows ==
    /\ Shows(out.avgOriginal) => IsExpectedMean(out.avgOriginal[1], loaded, ORIGINAL)
    /\ Shows(out.avgProcessed) => IsExpectedMean(out.avgProcessed[1], loaded, STEMMED)

\* C5: a Statistics run over a dataset with both text columns does not fail
\* and gives every record, for each of the two columns, the number of
\* whitespace-delimited tokens of its cell, 0 for an empty or absent cell.
C5_TokenCountsOfBothFields ==
    (page = "Statistics" /\ loaded.valid /\ RequiredColumns \subseteq loaded.columns) =>
        /\ out.error = NoError
        /\ {"original_tokens", "processed_tokens"} \subseteq df.columns
        /\ \A i \in 1..Len(df.rows) :
            /\ df.rows[i]["original_tokens"] = ExpectedTokenCount(loaded.rows[i][ORIGINAL])
            /\ df.rows[i]["processed_tokens"] = ExpectedTokenCount(loaded.rows[i][STEMMED])

\* C6: a run whose load failed, or whose dataset lacks a required column,
\* shows no dataset-derived metric, and the missing column is reported.
C6_NoMetricOnFailedLoadOrSchema ==
    /\ ~loaded.valid => NoDerivedMetricShown
    /\ (loaded.valid /\ ~(RequiredColumns \subseteq loaded.columns)) =>
            /\ out.error # NoError
            /\ NoDerivedMetricShown

\* C7: every download a run offers carries the file's content as it is on
\* disk during that run, and all of them carry the one file name.
C7_DownloadsVerbatimUnderOneName ==
    [][ (out' # out) =>
            \A i \in 1..Len(out'.downloads) :
                /\ out'.downloads[i].data = FileBytes(file)
                /\ out'.downloads[i].file_name = "anxiety_preprocessed.csv" ]_vars

C10_MetricsDependOnlyOnDataset ==
    (loaded.valid /\ first.dataset = Some(loaded)) =>
        /\ Shows(out.totalPosts) => out.totalPosts = first.totalPosts
        /\ Shows(out.avgOriginal) => out.avgOriginal = first.avgOriginal
        /\ Shows(out.avgProcessed) => out.avgProcessed = first.avgProcessed
        /\ \A c \in DOMAIN out.rates : out.rates[c] = first.rates[c]
        /\ Shows(out.topTerms) => out.topTerms = first.topTerms

\* C10 witness: the averages are shown by a second Statistics run over a
\* dataset whose post count an Overview run had shown before.
C10_Witness ==
    /\ page = "Statistics"
    /\ statsComputed = 2
    /\ Shows(out.avgProcessed)
    /\ Shows(first.totalPosts)
    /\ first.dataset = Some(loaded)
    /\ Len(loaded.rows) = 2

====
